---- MODULE Spec2Model ----
(***************************************************************************)
(* Model of Docs/guides/python-script-template.py, the Lighthouse workflow *)
(* script template: one invocation reads JSON from stdin, validates it,    *)
(* runs main (optional input-file read, optional output-file write) and    *)
(* prints one JSON object before exiting.  The file system persists from   *)
(* one invocation to the next; everything else is rebuilt per run.         *)
(***************************************************************************)
EXTENDS Integers, Sequences, FiniteSets, TLC

(* ----------------------------- bounds ---------------------------------- *)
\* longest initial content of the input file, in characters
MaxLen == 2
\* number of successive invocations with the same stdin
MaxRuns == 2
\* largest integer threshold fed to the script (the smallest is -1)
MaxThreshold == 1

(* ------------------------- JSON / Python values ------------------------ *)
\* A value of a dict entry: type tag t, numeric payload n, string payload s.
V(t, n, s) == [t |-> t, n |-> n, s |-> s]
\* the key is not in the dict
Absent == V("absent", 0, "")
JNull == V("NoneType", 0, "")
JBool(b) == V("bool", IF b THEN 1 ELSE 0, "")
JInt(n) == V("int", n, "")
\* the float n.0
JFloat(n) == V("float", n, "")
JStr(s) == V("str", 0, s)

\* defaults of main's inputs.get calls
DefaultInputFile == "data/default.txt"
DefaultOutputFile == "output/result.json"
DefaultThreshold == 10

\* a dict with no key at all: what an empty stdin becomes
EmptyDict ==
  [input_file |-> Absent, output_file |-> Absent,
   threshold |-> Absent, required_param |-> Absent]

\* The object json.loads returns: a dict (d holds its entries), or a
\* non-dict value: a list of n strings all equal to s, a str s, an int n,
\* a bool, or None.
Top(t, n, s, d) == [t |-> t, n |-> n, s |-> s, d |-> d]
TopDict(d) == Top("dict", 0, "", d)
TopOther(t, n, s) == Top(t, n, s, EmptyDict)

(* ------------------------------ exceptions ----------------------------- *)
\* Python's builtin exception hierarchy, as far as the script can raise it
Base(cls) ==
  CASE cls = "JSONDecodeError" -> "ValueError"
    [] cls = "UnicodeDecodeError" -> "ValueError"
    [] cls = "ValueError" -> "Exception"
    [] cls = "FileNotFoundError" -> "OSError"
    [] cls = "PermissionError" -> "OSError"
    [] cls = "IsADirectoryError" -> "OSError"
    [] cls = "FileExistsError" -> "OSError"
    [] cls = "OSError" -> "Exception"
    [] cls = "TypeError" -> "Exception"
    [] cls = "AttributeError" -> "Exception"
    [] cls = "RecursionError" -> "RuntimeError"
    [] cls = "RuntimeError" -> "Exception"
    [] cls = "Exception" -> "BaseException"
    [] cls = "SystemExit" -> "BaseException"
    [] OTHER -> "object"

RECURSIVE IsSubclass(_, _)
IsSubclass(cls, parent) ==
  IF cls = parent THEN TRUE
  ELSE IF cls = "object" THEN FALSE
  ELSE IsSubclass(Base(cls), parent)

\* an exception: its class and str(e), the message, as a sequence of parts
Exc(cls, msg) == [cls |-> cls, msg |-> msg]
NoExc == Exc("", <<>>)

(* ------------------------------ file system ---------------------------- *)
LF == "\n"
CR == "\r"
Chars == {"x", LF, CR}

Paths == {DefaultInputFile, DefaultOutputFile}

\* What a path names:
\*   missing   nothing, the parent directory exists
\*   noparent  nothing, and the parent directory does not exist either
\*   dir       a directory
\*   locked    a regular file the process may neither read nor write
\*   binary    a regular file whose bytes are not text in the locale encoding
\*   full      an empty regular file on a device with no space left
\*   file      a regular text file holding data
Kinds == {"missing", "noparent", "dir", "locked", "binary", "full", "file"}
Entry(kind, data) == [kind |-> kind, data |-> data]

RECURSIVE SeqsUpTo(_, _)
SeqsUpTo(S, n) ==
  IF n = 0 THEN {<<>>}
  ELSE LET shorter == SeqsUpTo(S, n - 1)
       IN shorter \cup {Append(s, c) : s \in {t \in shorter : Len(t) = n - 1}, c \in S}

Contents == SeqsUpTo(Chars, MaxLen)

(* ------------------------ text read and written ------------------------ *)
\* open(path, 'r') reads in universal-newlines mode: "\r\n" and a lone "\r"
\* both reach the program as "\n"
RECURSIVE TranslateNewlines(_)
TranslateNewlines(bytes) ==
  IF bytes = <<>> THEN <<>>
  ELSE IF Head(bytes) = CR
    THEN IF Len(bytes) >= 2 /\ bytes[2] = LF
           THEN <<LF>> \o TranslateNewlines(SubSeq(bytes, 3, Len(bytes)))
           ELSE <<LF>> \o TranslateNewlines(Tail(bytes))
    ELSE <<Head(bytes)>> \o TranslateNewlines(Tail(bytes))

\* data.split('\n'): the segments between the separators, with the empty ones
RECURSIVE SplitLines(_, _)
SplitLines(data, cur) ==
  IF data = <<>> THEN <<cur>>
  ELSE IF Head(data) = LF
    THEN <<cur>> \o SplitLines(Tail(data), <<>>)
    ELSE SplitLines(Tail(data), Append(cur, Head(data)))

\* Faulty variant of CountSegments: the file opened with newline='', so that
\* no line ending is translated
CountSegmentsRaw(bytes) == Len(SplitLines(bytes, <<>>))

\* len(data.split('\n')) of the text f.read() returns
CountSegments(bytes) == Len(SplitLines(TranslateNewlines(bytes), <<>>))

DigitChars == <<"0", "1", "2", "3", "4", "5", "6", "7", "8", "9">>

\* str(n) of a natural number, one character per digit
RECURSIVE Digits(_)
Digits(n) ==
  IF n < 10 THEN <<DigitChars[n + 1]>>
  ELSE Digits(n \div 10) \o <<DigitChars[(n % 10) + 1]>>

ProcessedKey == "  \"processed\": true,"
CountKey == "  \"count\": "

\* json.dumps({'processed': True, 'count': n}, indent=2), the text written to
\* the output file; each key with its punctuation is kept as one token
DumpOutputFile(n) ==
  <<"{", LF, ProcessedKey, LF, CountKey>> \o Digits(n) \o <<LF, "}">>

(* ------------------------------- state --------------------------------- *)
VARIABLES
  stdin,            \* what the caller pipes in, the same for every invocation
  stdinErrors,      \* error handler of sys.stdin: "strict" or "surrogateescape"
  fs,               \* the file system: path -> entry; survives the process
  fs0,              \* the file system as the current invocation found it
  run,              \* number of the current invocation
  history,          \* results of the earlier invocations
  pc,               \* position of the current invocation
  inputs,           \* the parsed stdin
  input_file,       \* main's locals
  output_file,
  threshold,
  processed_count,
  stdout,           \* the objects printed so far by this invocation
  traceback,        \* class of the exception that escaped, "" if none
  exitCode,         \* process exit status, -1 while running
  endedAt,          \* the position at which the process ended, "" while running
  reads,            \* times this invocation read the input file
  writes            \* times this invocation opened the output file for writing

vars ==
  <<stdin, stdinErrors, fs, fs0, run, history, pc, inputs, input_file,
    output_file, threshold, processed_count, stdout, traceback, exitCode,
    endedAt, reads, writes>>

Unset == TopOther("unset", 0, "")

(* ------------------------------ the inputs ----------------------------- *)
InputFileArgs == {Absent, JStr(DefaultOutputFile), JNull}
OutputFileArgs == {Absent, JStr(DefaultInputFile), JStr(""), JNull}
ThresholdArgs ==
  {Absent, JFloat(-1), JBool(TRUE), JStr("high")}
    \cup {JInt(n) : n \in (-1)..MaxThreshold}
RequiredArgs == {Absent, JInt(1)}

Dicts ==
  [input_file : InputFileArgs, output_file : OutputFileArgs,
   threshold : ThresholdArgs, required_param : RequiredArgs]

NonDicts ==
  {TopOther("list", 0, ""), TopOther("list", 1, "threshold"),
   TopOther("str", 0, "threshold"), TopOther("str", 0, "text"),
   TopOther("int", 5, ""), TopOther("float", 5, ""),
   TopOther("bool", 1, ""), TopOther("NoneType", 0, "")}

\* stdin: no bytes at all; text that is not JSON; bytes that are not text in
\* the stdin encoding; brackets opened deeper than the interpreter's
\* recursion limit and never closed (not JSON); well-formed JSON nested
\* deeper than that limit; or a JSON document with its value
Stdins ==
  {[kind |-> k, value |-> Unset] :
     k \in {"empty", "malformed", "undecodable", "deep_unclosed", "too_deep"}}
    \cup {[kind |-> "json", value |-> v] : v \in NonDicts}
    \cup {[kind |-> "json", value |-> TopDict(d)] : d \in Dicts}

(* --------------------------- Python primitives ------------------------- *)
\* dict.get(key, default)
Get(entry, default) == IF entry = Absent THEN default ELSE entry

\* bool(x) of a str or None
Truthy(v) == ~(v.t = "NoneType" \/ (v.t = "str" /\ v.s = ""))

\* isinstance(v, (int, float)); bool is a subclass of int
IsIntOrFloat(v) == v.t \in {"int", "float", "bool"}

\* key in obj, for the objects json.loads can return; the str values of the
\* model either are the key or do not contain it
Contains(obj, key) ==
  CASE obj.t = "dict" -> obj.d[key] # Absent
    [] obj.t = "list" -> obj.n > 0 /\ obj.s = key
    [] obj.t = "str" -> obj.s = key
    [] OTHER -> FALSE

\* os.path.exists(path) of a str path
Exists(f, path) == f[path].kind \notin {"missing", "noparent"}

\* The path main reads and the path it writes for these inputs, "" if none:
\* the key's value or the default, when that is a str (and, to be written,
\* a non-empty one).
PathOf(v) == IF v.t = "str" THEN v.s ELSE ""
InputPath(obj) ==
  IF obj.t = "dict" THEN PathOf(Get(obj.d.input_file, JStr(DefaultInputFile)))
  ELSE ""
OutputPath(obj) ==
  IF obj.t = "dict" THEN PathOf(Get(obj.d.output_file, JStr(DefaultOutputFile)))
  ELSE ""

\* what json.loads(input_data) if input_data else {} evaluates to
Parsed(sin) == IF sin.kind = "empty" THEN TopDict(EmptyDict) ELSE sin.value

(* ------------------------- the objects printed ------------------------- *)
\* error_output of the except clauses
ErrorOutput(error, error_type) ==
  [success |-> FALSE, error |-> error, error_type |-> error_type,
   processed_count |-> -1, output_file |-> Absent, threshold_used |-> Absent]

\* the dict main returns
MainOutput(count, outFile, thr) ==
  [success |-> TRUE, error |-> <<>>, error_type |-> "",
   processed_count |-> count, output_file |-> outFile, threshold_used |-> thr]

(* --------------------- stdin: read and json.loads ---------------------- *)
ParseErrorText == "Expecting value: line 1 column 1 (char 0)"

\* The exception sys.stdin.read() or json.loads raises, NoExc if neither does.
\* Undecodable bytes raise in read() under the strict handler; under
\* surrogateescape they become lone surrogates, which json.loads rejects.
LoadStdin(sin, errors) ==
  CASE sin.kind = "undecodable" /\ errors = "strict" ->
         Exc("UnicodeDecodeError", <<"'utf-8' codec can't decode byte 0xff">>)
    [] sin.kind = "undecodable" /\ errors # "strict" ->
         Exc("JSONDecodeError", <<ParseErrorText>>)
    [] sin.kind = "malformed" -> Exc("JSONDecodeError", <<ParseErrorText>>)
    [] sin.kind \in {"deep_unclosed", "too_deep"} ->
         Exc("RecursionError", <<"maximum recursion depth exceeded">>)
    [] OTHER -> NoExc

\* the one except clause of the first try
StdinHandler(cls) == IsSubclass(cls, "JSONDecodeError")

(* --------------------------- validate_inputs --------------------------- *)
\* Faulty variant of ValidateInputs: the threshold < 0 test is left out
ValidateInputsNoRange(obj) ==
  IF obj.t \notin {"dict", "list", "str"}
    THEN Exc("TypeError", <<"argument of type '", obj.t, "' is not iterable">>)
  ELSE IF ~Contains(obj, "threshold") THEN NoExc
  ELSE IF obj.t # "dict"
    THEN Exc("TypeError", <<obj.t, " indices must be integers">>)
  ELSE IF ~IsIntOrFloat(obj.d.threshold)
    THEN Exc("ValueError", <<"threshold must be a number, got ", obj.d.threshold.t>>)
  ELSE NoExc

\* The exception validate_inputs raises, NoExc if it returns.
ValidateInputs(obj) ==
  IF obj.t \notin {"dict", "list", "str"}
    THEN Exc("TypeError", <<"argument of type '", obj.t, "' is not iterable">>)
  ELSE IF ~Contains(obj, "threshold") THEN NoExc
  ELSE IF obj.t # "dict"
    THEN Exc("TypeError", <<obj.t, " indices must be integers">>)
  ELSE IF ~IsIntOrFloat(obj.d.threshold)
    THEN Exc("ValueError", <<"threshold must be a number, got ", obj.d.threshold.t>>)
  ELSE IF obj.d.threshold.n < 0
    THEN Exc("ValueError", <<"threshold must be positive, got a negative">>)
  ELSE NoExc

(* ------------------- the except clauses of the second try -------------- *)
\* Faulty variant of Handler: the final except Exception clause is missing
HandlerNoCatchAll(cls) ==
  IF IsSubclass(cls, "FileNotFoundError") THEN "FileNotFoundError"
  ELSE IF IsSubclass(cls, "ValueError") THEN "ValueError"
  ELSE ""

\* Faulty variant of Handler: the final clause reads except OSError
HandlerOSErrorOnly(cls) ==
  IF IsSubclass(cls, "FileNotFoundError") THEN "FileNotFoundError"
  ELSE IF IsSubclass(cls, "ValueError") THEN "ValueError"
  ELSE IF IsSubclass(cls, "OSError") THEN "OSError"
  ELSE ""

\* The except clause that catches an exception of class cls, "" if none does
Handler(cls) ==
  IF IsSubclass(cls, "FileNotFoundError") THEN "FileNotFoundError"
  ELSE IF IsSubclass(cls, "ValueError") THEN "ValueError"
  ELSE IF IsSubclass(cls, "Exception") THEN "Exception"
  ELSE ""

\* what the clause prints for exception exc
HandlerOutput(clause, exc) ==
  CASE clause = "FileNotFoundError" ->
         ErrorOutput(<<"File not found: ">> \o exc.msg, "FileNotFoundError")
    [] clause = "ValueError" ->
         ErrorOutput(<<"Invalid value: ">> \o exc.msg, "ValueError")
    [] OTHER -> ErrorOutput(exc.msg, exc.cls)

\* the process ends: status code, escaped exception tb, stdout out
Exit(code, tb, out) ==
  /\ stdout' = out
  /\ exitCode' = code
  /\ traceback' = tb
  /\ endedAt' = pc
  /\ pc' = "done"

\* exc is raised inside the second try with out printed so far: a clause
\* prints its error_output and calls sys.exit(1); SystemExit(0) that no clause
\* catches ends the process with status 0, any other escaped exception with
\* a traceback and status 1.
Raise(exc, out) ==
  IF Handler(exc.cls) # ""
    THEN Exit(1, "", Append(out, HandlerOutput(Handler(exc.cls), exc)))
  ELSE IF exc.cls = "SystemExit" THEN Exit(0, "", out)
  ELSE Exit(1, exc.cls, out)

(* --------------------------------- main -------------------------------- *)
\* Faulty variant of MissingRequired: the membership test names another key
MissingRequiredWrongKey(d) == d.threshold = Absent

\* 'required_param' in inputs is false
MissingRequired(d) == d.required_param = Absent

\* The exception open(path, 'r') followed by f.read() raises on this entry
OpenRead(entry) ==
  CASE entry.kind = "dir" -> Exc("IsADirectoryError", <<"[Errno 21] Is a directory">>)
    [] entry.kind = "locked" -> Exc("PermissionError", <<"[Errno 13] Permission denied">>)
    [] entry.kind = "binary" ->
         Exc("UnicodeDecodeError", <<"'utf-8' codec can't decode byte 0xff">>)
    [] OTHER -> NoExc

\* Faulty variant of OpenWrite: the file opened with mode 'x', which refuses
\* a path that exists
OpenWriteExclusive(entry) ==
  CASE entry.kind = "noparent" ->
         Exc("FileNotFoundError", <<"[Errno 2] No such file or directory">>)
    [] entry.kind # "missing" -> Exc("FileExistsError", <<"[Errno 17] File exists">>)
    [] OTHER -> NoExc

\* The exception open(path, 'w') raises on this entry; when it raises nothing
\* the file exists afterwards and is empty
OpenWrite(entry) ==
  CASE entry.kind = "noparent" ->
         Exc("FileNotFoundError", <<"[Errno 2] No such file or directory">>)
    [] entry.kind = "dir" -> Exc("IsADirectoryError", <<"[Errno 21] Is a directory">>)
    [] entry.kind = "locked" -> Exc("PermissionError", <<"[Errno 13] Permission denied">>)
    [] OTHER -> NoExc

\* The exception f.write(text) and the close at the end of the with block
\* raise on this entry
FlushWrite(entry) ==
  IF entry.kind = "full"
    THEN Exc("OSError", <<"[Errno 28] No space left on device">>)
    ELSE NoExc

(* -------------------------------- actions ------------------------------ *)
Outcome == <<stdout, exitCode, traceback, endedAt>>
Locals == <<inputs, input_file, output_file, threshold, processed_count>>
World == <<stdin, stdinErrors, fs0, run, history>>

\* Lines 126-136: read stdin and parse it.  Only JSONDecodeError is caught
\* here; any other exception ends the process with a traceback.
ReadStdin ==
  /\ pc = "start"
  /\ LET exc == LoadStdin(stdin, stdinErrors) IN
       IF exc = NoExc
         THEN /\ inputs' = Parsed(stdin)
              /\ pc' = "validate"
              /\ UNCHANGED Outcome
       ELSE IF StdinHandler(exc.cls)
         THEN /\ Exit(1, "", Append(stdout,
                   ErrorOutput(<<"Invalid JSON input: ">> \o exc.msg, "JSONDecodeError")))
              /\ UNCHANGED inputs
       ELSE /\ Exit(1, exc.cls, stdout)
            /\ UNCHANGED inputs
  /\ UNCHANGED <<World, fs, input_file, output_file, threshold, processed_count,
                 reads, writes>>

\* Line 140: validate_inputs(inputs)
Validate ==
  /\ pc = "validate"
  /\ LET exc == ValidateInputs(inputs) IN
       IF exc = NoExc
         THEN /\ pc' = "main"
              /\ UNCHANGED Outcome
         ELSE Raise(exc, stdout)
  /\ UNCHANGED <<World, fs, Locals, reads, writes>>

\* Lines 69-78: main's parameters and the required_param check
MainParams ==
  /\ pc = "main"
  /\ IF inputs.t # "dict"
       THEN /\ Raise(Exc("AttributeError",
                         <<"'", inputs.t, "' object has no attribute 'get'">>), stdout)
            /\ UNCHANGED <<input_file, output_file, threshold>>
       ELSE /\ input_file' = Get(inputs.d.input_file, JStr(DefaultInputFile))
            /\ output_file' = Get(inputs.d.output_file, JStr(DefaultOutputFile))
            /\ threshold' = Get(inputs.d.threshold, JInt(DefaultThreshold))
            /\ IF MissingRequired(inputs.d)
                 THEN Raise(Exc("ValueError",
                                <<"Missing required parameter: ", "required_param">>),
                            stdout)
                 ELSE /\ pc' = "read"
                      /\ UNCHANGED Outcome
  /\ UNCHANGED <<World, fs, inputs, processed_count, reads, writes>>

\* Lines 81-89: count the segments of the input file if it exists
ReadInput ==
  /\ pc = "read"
  /\ IF input_file.t # "str"
       THEN /\ Raise(Exc("TypeError", <<"stat: path should be string, not ",
                                        input_file.t>>), stdout)
            /\ processed_count' = 0
            /\ UNCHANGED reads
     ELSE IF ~Exists(fs, input_file.s)
       THEN /\ processed_count' = 0
            /\ pc' = "write"
            /\ UNCHANGED <<Outcome, reads>>
     ELSE IF OpenRead(fs[input_file.s]) # NoExc
       THEN /\ Raise(OpenRead(fs[input_file.s]), stdout)
            /\ processed_count' = 0
            /\ UNCHANGED reads
     ELSE /\ processed_count' = CountSegments(fs[input_file.s].data)
          /\ reads' = reads + 1
          /\ pc' = "write"
          /\ UNCHANGED Outcome
  /\ UNCHANGED <<World, fs, inputs, input_file, output_file, threshold, writes>>

\* Lines 91-94: write the count to the output file if one is named
WriteOutput ==
  /\ pc = "write"
  /\ IF ~Truthy(output_file)
       THEN /\ pc' = "emit"
            /\ UNCHANGED <<fs, writes, Outcome>>
     ELSE IF OpenWrite(fs[output_file.s]) # NoExc
       THEN /\ Raise(OpenWrite(fs[output_file.s]), stdout)
            /\ UNCHANGED <<fs, writes>>
     ELSE IF FlushWrite(fs[output_file.s]) # NoExc
       THEN /\ Raise(FlushWrite(fs[output_file.s]), stdout)
            /\ writes' = writes + 1
            /\ UNCHANGED fs
     ELSE /\ fs' = [fs EXCEPT ![output_file.s] =
                      Entry("file", DumpOutputFile(processed_count))]
          /\ writes' = writes + 1
          /\ pc' = "emit"
          /\ UNCHANGED Outcome
  /\ UNCHANGED <<World, Locals, reads>>

\* Lines 96-102 and 145-151: main returns, the result is printed, and
\* sys.exit(0) raises SystemExit inside the try
EmitSuccess ==
  /\ pc = "emit"
  /\ Raise(Exc("SystemExit", <<"0">>),
           Append(stdout, MainOutput(processed_count, output_file, threshold)))
  /\ UNCHANGED <<World, fs, Locals, reads, writes>>

\* The caller starts the script again with the same stdin: a new process,
\* nothing kept but the file system
NextRun ==
  /\ pc = "done"
  /\ run < MaxRuns
  /\ run' = run + 1
  /\ history' = Append(history,
       [stdout |-> stdout, exitCode |-> exitCode, traceback |-> traceback])
  /\ fs0' = fs
  /\ pc' = "start"
  /\ inputs' = Unset
  /\ input_file' = Absent
  /\ output_file' = Absent
  /\ threshold' = Absent
  /\ processed_count' = 0
  /\ stdout' = <<>>
  /\ traceback' = ""
  /\ exitCode' = -1
  /\ endedAt' = ""
  /\ reads' = 0
  /\ writes' = 0
  /\ UNCHANGED <<stdin, stdinErrors, fs>>

(* ---------------------------- specification ---------------------------- *)
Entries ==
  {Entry(k, <<>>) : k \in Kinds} \cup {Entry("file", c) : c \in Contents}

\* Any stdin of the bounded set on any file system.  Only the file main
\* reads starts with content (the content of a file never read is never
\* looked at), and the stdin error handler is varied only for the stdin it
\* matters to.
Init ==
  /\ stdin \in Stdins
  /\ stdinErrors \in
       IF stdin.kind = "undecodable" THEN {"strict", "surrogateescape"}
       ELSE {"strict"}
  /\ fs \in {f \in [Paths -> Entries] :
               \A p \in Paths : f[p].data # <<>> => p = InputPath(Parsed(stdin))}
  /\ fs0 = fs
  /\ run = 1
  /\ history = <<>>
  /\ pc = "start"
  /\ inputs = Unset
  /\ input_file = Absent
  /\ output_file = Absent
  /\ threshold = Absent
  /\ processed_count = 0
  /\ stdout = <<>>
  /\ traceback = ""
  /\ exitCode = -1
  /\ endedAt = ""
  /\ reads = 0
  /\ writes = 0

Next ==
  \/ ReadStdin
  \/ Validate
  \/ MainParams
  \/ ReadInput
  \/ WriteOutput
  \/ EmitSuccess
  \/ NextRun

Spec == Init /\ [][Next]_vars

(* ------------------------------ properties ----------------------------- *)
Done == pc = "done"

\* what a caller observes of an invocation
Result == [stdout |-> stdout, exitCode |-> exitCode, traceback |-> traceback]

\* exactly one object was printed, an error object
OneError == Len(stdout) = 1 /\ ~stdout[1].success

\* exactly one object was printed, a success object
OneSuccess == Len(stdout) = 1 /\ stdout[1].success

\* the error message has text as one of its parts
Mentions(error, text) == \E i \in 1..Len(error) : error[i] = text

\* The dict the script works on, for the stdin that gives one
GivesDict == stdin.kind \in {"empty", "json"} /\ Parsed(stdin).t = "dict"
Args == Parsed(stdin).d

\* C1: every run prints exactly one JSON object and exits, with status 0
\* exactly when the object's success field is true and status 1 exactly when
\* it is false.
C1_OneObjectAndMatchingExit ==
  Done =>
    /\ Len(stdout) = 1
    /\ traceback = ""
    /\ (exitCode = 0 <=> stdout[1].success)
    /\ (exitCode = 1 <=> ~stdout[1].success)

\* C2: a stdin that is not empty and not valid JSON gives one error object of
\* type JSONDecodeError carrying the parse error text and status 1, and
\* neither validate_inputs nor main runs.
C2_MalformedStdinReported ==
  (Done /\ stdin.kind \in {"malformed", "undecodable", "deep_unclosed"}) =>
    /\ OneError
    /\ stdout[1].error_type = "JSONDecodeError"
    /\ Mentions(stdout[1].error, ParseErrorText)
    /\ exitCode = 1
    /\ endedAt = "start"
    /\ reads = 0 /\ writes = 0 /\ fs = fs0

\* C3: a dict without 'required_param' (an empty stdin included) that passes
\* the threshold validation gives one error object of type ValueError naming
\* the parameter, and status 1.
C3_MissingRequiredParam ==
  (Done /\ GivesDict /\ Args.required_param = Absent
        /\ endedAt \notin {"start", "validate"}) =>
    /\ OneError
    /\ stdout[1].error_type = "ValueError"
    /\ Mentions(stdout[1].error, "required_param")
    /\ exitCode = 1
    /\ traceback = ""

C3_Witness ==
  /\ Done /\ stdin.kind = "empty" /\ endedAt = "main"
  /\ OneError /\ stdout[1].error_type = "ValueError" /\ exitCode = 1

\* a JSON number: an int or a float, not true or false
IsJsonNumber(v) == v.t \in {"int", "float"}

\* C4: validate_inputs rejects exactly when 'threshold' is present and is
\* not a number or is below 0; a rejection is a ValueError error object with
\* status 1, raised before main is called.
C4_RejectsExactlyBadThreshold ==
  (Done /\ GivesDict) =>
    /\ (endedAt = "validate") <=>
         (Args.threshold # Absent
            /\ (~IsJsonNumber(Args.threshold) \/ Args.threshold.n < 0))
    /\ (endedAt = "validate") =>
         /\ OneError /\ stdout[1].error_type = "ValueError" /\ exitCode = 1
         /\ input_file = Absent /\ reads = 0 /\ writes = 0

\* C5: when the file named by input_file does not exist the run reports an
\* error, exits with a status other than 0 and writes no output.
C5_MissingInputIsAnError ==
  (Done /\ GivesDict /\ InputPath(Parsed(stdin)) # ""
        /\ ~Exists(fs0, InputPath(Parsed(stdin)))) =>
    /\ exitCode # 0
    /\ (OneError \/ traceback # "")
    /\ fs = fs0

\* C6: every failure to open or write the output file is caught by an except
\* clause and reported as one error object with status 1; none escapes and
\* no success object is printed.
C6_WriteFailuresReported ==
  (Done /\ endedAt \in {"write", "emit"} /\ Truthy(output_file)
        /\ fs0[output_file.s].kind \in {"noparent", "dir", "locked", "full"}) =>
    /\ OneError
    /\ exitCode = 1
    /\ traceback = ""

C6_Witness ==
  /\ Done /\ endedAt = "write" /\ fs0[output_file.s].kind = "locked"
  /\ OneError /\ stdout[1].error_type = "PermissionError" /\ exitCode = 1

\* C7 as claimed: every invocation with the same stdin gives the same stdout
\* and exit status as the ones before it, also when input_file and
\* output_file name the same path.
C7_SameResultEveryRun ==
  Done => \A i \in 1..Len(history) : history[i] = Result

\* the input file and the output file of these inputs are one path
SamePath ==
  /\ InputPath(Parsed(stdin)) # ""
  /\ InputPath(Parsed(stdin)) = OutputPath(Parsed(stdin))

\* C7 amended: every invocation with the same stdin gives the same stdout and
\* exit status as the ones before it, provided input_file and output_file
\* name different paths.
C7_SameResultOnDistinctPaths ==
  (Done /\ ~SamePath) => \A i \in 1..Len(history) : history[i] = Result

C7_Witness ==
  /\ Done /\ run = 2 /\ ~SamePath /\ OneSuccess
  /\ reads = 1 /\ writes = 1 /\ history[1] = Result

\* the threshold test of validate_inputs lets v through (a bool counts as an
\* int there)
ThresholdPasses(v) ==
  v = Absent \/ (v.t \in {"int", "float", "bool"} /\ v.n >= 0)

\* stdin parsed to a dict, the threshold validation and the required_param
\* check passed, and the input file, if there is one, can be read
WriteAllowed ==
  /\ GivesDict
  /\ ThresholdPasses(Args.threshold)
  /\ Args.required_param # Absent
  /\ InputPath(Parsed(stdin)) # ""
  /\ fs0[InputPath(Parsed(stdin))].kind \notin {"dir", "locked", "binary"}

\* C8: a run reads the input file at most once and writes the output file at
\* most once, prints at most once, writes only after parsing, validation,
\* the required_param check and the read went through, and leaves the file
\* system as it found it when it fails before the read.
C8_OnceAndInOrder ==
  /\ reads <= 1 /\ writes <= 1 /\ Len(stdout) <= 1
  /\ (writes = 1 \/ fs # fs0) =>
       /\ WriteAllowed
       /\ pc \in {"emit", "done"}
       /\ (Exists(fs0, InputPath(Parsed(stdin))) => reads = 1)
  /\ (Done /\ endedAt \in {"start", "validate", "main"}) =>
       (fs = fs0 /\ reads = 0 /\ writes = 0 /\ exitCode = 1)

C8_Witness ==
  /\ Done /\ reads = 1 /\ writes = 1 /\ fs # fs0 /\ OneSuccess

\* number of "\n" characters of a file's content
RECURSIVE CountLF(_)
CountLF(bytes) ==
  IF bytes = <<>> THEN 0
  ELSE (IF Head(bytes) = LF THEN 1 ELSE 0) + CountLF(Tail(bytes))

\* number of line endings of a file's content: each "\r\n", each "\r" that
\* no "\n" follows and each "\n" that follows no "\r"
LineEndings(bytes) ==
  Cardinality({i \in 1..Len(bytes) :
     \/ bytes[i] = CR
     \/ bytes[i] = LF /\ (i = 1 \/ bytes[i - 1] # CR)})

DigitValue(c) == (CHOOSE i \in 1..10 : DigitChars[i] = c) - 1

RECURSIVE ParseNat(_, _)
ParseNat(chars, acc) ==
  IF chars = <<>> THEN acc
  ELSE ParseNat(Tail(chars), 10 * acc + DigitValue(Head(chars)))

\* the number after the "count" key of an output file
StoredCount(content) ==
  LET k == CHOOSE i \in 1..Len(content) : content[i] = CountKey
      e == CHOOSE j \in (k + 1)..Len(content) :
             content[j] = LF /\ \A m \in (k + 1)..(j - 1) : content[m] # LF
  IN ParseNat(SubSeq(content, k + 1, e - 1), 0)

\* a successful run that found these inputs' files as fs0 has them
Succeeded == Done /\ exitCode = 0 /\ OneSuccess

\* C9 as claimed: on success processed_count is 0 when the input file does
\* not exist and otherwise the number of "\n" characters of its content plus
\* 1, and the count in a written output file is the processed_count printed.
C9_CountIsNewlinesPlusOne ==
  Succeeded =>
    /\ stdout[1].processed_count =
         IF ~Exists(fs0, InputPath(Parsed(stdin))) THEN 0
         ELSE CountLF(fs0[InputPath(Parsed(stdin))].data) + 1
    /\ writes = 1 =>
         StoredCount(fs[OutputPath(Parsed(stdin))].data) = stdout[1].processed_count

\* C9 amended: on success processed_count is 0 when the input file does not
\* exist and otherwise the number of line endings of its content ("\n",
\* "\r\n" or a lone "\r", as universal-newlines reading sees them) plus 1,
\* and the count in a written output file is the processed_count printed.
C9_CountIsLineEndingsPlusOne ==
  Succeeded =>
    /\ stdout[1].processed_count =
         IF ~Exists(fs0, InputPath(Parsed(stdin))) THEN 0
         ELSE LineEndings(fs0[InputPath(Parsed(stdin))].data) + 1
    /\ writes = 1 =>
         StoredCount(fs[OutputPath(Parsed(stdin))].data) = stdout[1].processed_count

C9_Witness ==
  /\ Succeeded /\ reads = 1 /\ writes = 1
  /\ fs0[InputPath(Parsed(stdin))].data = <<CR, "x">>
  /\ stdout[1].processed_count = 2
  /\ StoredCount(fs[OutputPath(Parsed(stdin))].data) = 2

\* C10: a stdin that is JSON but not an object never escapes as an uncaught
\* exception: one error object is printed, the status is 1, and no file is
\* read or written.
C10_NonObjectReported ==
  (Done /\ stdin.kind = "json" /\ stdin.value.t # "dict") =>
    /\ traceback = ""
    /\ OneError
    /\ exitCode = 1
    /\ reads = 0 /\ writes = 0 /\ fs = fs0

C10_Witness ==
  /\ Done /\ stdin.kind = "json" /\ stdin.value = TopOther("str", 0, "threshold")
  /\ endedAt = "validate"
  /\ OneError /\ stdout[1].error_type = "TypeError" /\ exitCode = 1

====
